---- MODULE Spec2Model ----
(***************************************************************************)
(* Model of the Text Decoder backend API (src/app.py): the Flask routes,   *)
(* the validate_api_key decorator, the flask-limiter admission check, the  *)
(* prompt rendering, the parse-or-fallback of the model reply and the two  *)
(* response builders.  One request is one step of the state machine.       *)
(***************************************************************************)
EXTENDS Integers, Sequences, FiniteSets, TLC

VARIABLES
    hits,     \* flask-limiter storage: (caller, route) -> requests counted in the window
    req,      \* the request handled last
    resp,     \* the response it was given: [status, body]
    trail,    \* what the handling of that request did
    sent,     \* (caller, route, period) -> requests the caller sent to the route in the window
    call      \* the helper function applied last on its own: [fn, args, now, ret]

vars == <<hits, req, resp, trail, sent, call>>

----------------------------------------------------------------------------
(* Bounds of the model *)

\* requests counted past a limit before the caller stops sending to that route
MaxOver == 1

\* pairs of caller and route whose windows are open at the same time, where the
\* callers are followed side by side
MaxOpenPairs == 3

\* elements of the short texts sanitize_input is applied to on its own
MaxTextLen == 2

----------------------------------------------------------------------------
(* Python values: the JSON documents of request bodies and model replies *)

PyNone == [t |-> "NoneType"]
PyStr(s) == [t |-> "str", s |-> s]
PyInt(n) == [t |-> "int", n |-> n]
PyList(items) == [t |-> "list", items |-> items]
PyFloat(s) == [t |-> "float", s |-> s]
PyBool(b) == [t |-> "bool", b |-> b]
PyDict(f) == [t |-> "dict", f |-> f]

EmptyDict == PyDict([k \in {} |-> PyNone])

\* bool(v): Python truthiness, as used by `not data` and `not text`
Truthy(v) ==
    CASE v.t = "NoneType" -> FALSE
      [] v.t = "str" -> v.s # <<>>
      [] v.t = "int" -> v.n # 0
      [] v.t = "list" -> v.items # <<>>
      [] v.t = "dict" -> DOMAIN v.f # {}

\* A str is a sequence of elements: one character or one markup tag each for
\* caller text, one whole chunk for a text whose length is never looked at.
\* The characters of the body field names, for `field in data` on a str body.
Spell(key) ==
    CASE key = "text" -> <<"t", "e", "x", "t">>
      [] key = "user_hash" -> <<"u", "s", "e", "r", "_", "h", "a", "s", "h">>
      [] OTHER -> <<key>>

RECURSIVE IsInfix(_, _)
\* needle in haystack, for the elements of two str values
IsInfix(needle, hay) ==
    IF Len(needle) > Len(hay) THEN FALSE
    ELSE IF SubSeq(hay, 1, Len(needle)) = needle THEN TRUE
    ELSE IsInfix(needle, Tail(hay))

\* `key in v`: [exc, val].  dict: key lookup; list: element lookup; str: substring;
\* None and int: TypeError (argument of type ... is not iterable)
PyIn(key, v) ==
    CASE v.t = "dict" -> [exc |-> "none", val |-> key \in DOMAIN v.f]
      [] v.t = "list" -> [exc |-> "none",
                          val |-> \E i \in 1..Len(v.items) : v.items[i] = PyStr(key)]
      [] v.t = "str" -> [exc |-> "none", val |-> IsInfix(Spell(key), v.s)]
      [] OTHER -> [exc |-> "TypeError", val |-> FALSE]

\* `v[key]` for a str key: dict lookup, anything else is a TypeError
PyGetItem(v, key) ==
    IF v.t = "dict"
    THEN IF key \in DOMAIN v.f THEN [exc |-> "none", val |-> v.f[key]]
         ELSE [exc |-> "KeyError", val |-> PyNone]
    ELSE [exc |-> "TypeError", val |-> PyNone]

\* len(v) that counts one too many
PyLenOffByOne(v) ==
    CASE v.t = "str" -> [exc |-> "none", val |-> Len(v.s) + 1]
      [] v.t = "list" -> [exc |-> "none", val |-> Len(v.items) + 1]
      [] v.t = "dict" -> [exc |-> "none", val |-> Cardinality(DOMAIN v.f) + 1]
      [] OTHER -> [exc |-> "TypeError", val |-> 0]

\* len(v): TypeError for None and int
PyLen(v) ==
    CASE v.t = "str" -> [exc |-> "none", val |-> Len(v.s)]
      [] v.t = "list" -> [exc |-> "none", val |-> Len(v.items)]
      [] v.t = "dict" -> [exc |-> "none", val |-> Cardinality(DOMAIN v.f)]
      [] OTHER -> [exc |-> "TypeError", val |-> 0]

----------------------------------------------------------------------------
(* sanitize_input *)

\* the cap of cleaned[:50000]
SanitizeCap == 50000

\* the markup tags that occur in the caller texts of the model
MarkupTags == {"<b>", "</b>", "<script>", "</script>"}

\* A long text is written with run elements: Run(n) stands for n times "a".
Run(n) == "a*" \o ToString(n)

\* the lengths of the runs that occur: those around the cap
RunLengths == (SanitizeCap - 3)..(SanitizeCap + 1)

\* the characters an element stands for
ElementLen(e) ==
    IF \E n \in RunLengths : e = Run(n) THEN CHOOSE n \in RunLengths : e = Run(n) ELSE 1

RECURSIVE TextLen(_)
\* len(s) of a text
TextLen(s) == IF s = <<>> THEN 0 ELSE ElementLen(Head(s)) + TextLen(Tail(s))

RECURSIVE BleachClean(_)
\* bleach.clean(text, tags=[], strip=True): every tag is dropped, its text content
\* is kept, and the characters & < > left in the text come out as entities
BleachClean(text) ==
    IF text = <<>> THEN <<>>
    ELSE LET c == Head(text)
             out == CASE c \in MarkupTags -> <<>>
                      [] c = "&" -> <<"&", "a", "m", "p", ";">>
                      [] c = "<" -> <<"&", "l", "t", ";">>
                      [] c = ">" -> <<"&", "g", "t", ";">>
                      [] OTHER -> <<c>>
         IN out \o BleachClean(Tail(text))

\* s[:n]
Prefix(s, n) == SubSeq(s, 1, IF Len(s) < n THEN Len(s) ELSE n)

RECURSIVE Cut(_, _)
\* s[:n] of a text that may hold runs: a run that does not fit is cut short
Cut(s, n) ==
    IF s = <<>> \/ n = 0 THEN <<>>
    ELSE LET l == ElementLen(Head(s))
         IN IF l <= n THEN <<Head(s)>> \o Cut(Tail(s), n - l) ELSE <<Run(n)>>

\* sanitize_input with the cap applied to the text before bleach.clean
sanitize_input_cut_first(v) ==
    IF ~Truthy(v) THEN [exc |-> "none", val |-> <<>>]
    ELSE IF v.t # "str" THEN [exc |-> "TypeError", val |-> <<>>]
    ELSE [exc |-> "none", val |-> BleachClean(Cut(v.s, SanitizeCap))]

\* sanitize_input(text): "" for a falsy argument, TypeError from bleach.clean for
\* a truthy argument that is not a str, else the cleaned text cut at the cap
sanitize_input(v) ==
    IF ~Truthy(v) THEN [exc |-> "none", val |-> <<>>]
    ELSE IF v.t # "str" THEN [exc |-> "TypeError", val |-> <<>>]
    ELSE [exc |-> "none", val |-> Cut(BleachClean(v.s), SanitizeCap)]

RECURSIVE JsonDumps(_)
RECURSIVE JsonDumpsItems(_)
RECURSIVE JsonDumpsFields(_, _)
\* json.dumps(v) of a value that came out of request.get_json()
JsonDumps(v) ==
    CASE v.t = "NoneType" -> <<"null">>
      [] v.t = "int" -> <<ToString(v.n)>>
      [] v.t = "str" -> <<"\"">> \o v.s \o <<"\"">>
      [] v.t = "list" -> <<"[">> \o JsonDumpsItems(v.items) \o <<"]">>
      [] v.t = "dict" -> <<"{">> \o JsonDumpsFields(v.f, DOMAIN v.f) \o <<"}">>

JsonDumpsItems(items) ==
    IF items = <<>> THEN <<>>
    ELSE JsonDumps(Head(items))
         \o (IF Len(items) > 1 THEN <<", ">> ELSE <<>>)
         \o JsonDumpsItems(Tail(items))

JsonDumpsFields(f, keys) ==
    IF keys = {} THEN <<>>
    ELSE LET k == CHOOSE x \in keys : TRUE
         IN <<"\"">> \o Spell(k) \o <<"\"", ": ">> \o JsonDumps(f[k])
            \o (IF keys # {k} THEN <<", ">> ELSE <<>>)
            \o JsonDumpsFields(f, keys \ {k})

----------------------------------------------------------------------------
(* The prompt templates.  A template is kept as its sequence of pieces: the *)
(* braces and colons that str.format reads, and the text between them.      *)

SPEAKER_IDENTIFICATION_PROMPT ==
    << "You are an expert conversation analyst. ... Return a JSON object with this exact structure:",
       "{", "\"speakers_identified\"", ":", "[\"Speaker 1\", \"Speaker 2\"], ...", "}",
       "Text to analyze:" >>

CONVERSATION_ANALYSIS_PROMPT ==
    << "You are a supportive, neutral, and unbiased psychological conversation analyst. ... Return a JSON object:",
       "{", "\"summary\"", ":", "\"2-3 sentence overview\", ...", "}",
       "Speakers in conversation: ", "{", "speakers", "}",
       "Behavior library categories to reference: ", "{", "behavior_categories", "}",
       "Conversation:", "{", "conversation", "}" >>

RESPONSE_IMPACT_PROMPT ==
    << "You are a communication dynamics expert. ... - User is: ", "{", "user_speaker", "}",
       "- User's drafted response: ", "{", "draft_response", "}",
       "Analyze the potential impact and provide alternatives. Return JSON:",
       "{", "\"impact_analysis\"", ":", "{", "\"likely_reception\"", ":", "...", "}", "...", "}",
       "Previous conversation:", "{", "conversation", "}" >>

PROFILE_ANALYSIS_PROMPT ==
    << "You are creating a comprehensive psychological profile ...",
       "Profile data to analyze:", "{", "profile_data", "}",
       "Return JSON:",
       "{", "\"profile_summary\"", ":", "\"2-3 sentence overview of this person\", ...", "}" >>

SELF_PROFILE_PROMPT ==
    << "You are a compassionate but HONEST psychological analyst ...",
       "User's conversation data:", "{", "user_data", "}",
       "Return JSON:",
       "{", "\"honest_summary\"", ":", "\"direct, unbiased overview\", ...", "}" >>

RECURSIVE ClosingBrace(_, _, _)
\* the index of the brace that closes the replacement field opened before i
ClosingBrace(tpl, i, depth) ==
    IF i > Len(tpl) THEN 0
    ELSE IF tpl[i] = "{" THEN ClosingBrace(tpl, i + 1, depth + 1)
    ELSE IF tpl[i] = "}"
         THEN IF depth = 0 THEN i ELSE ClosingBrace(tpl, i + 1, depth - 1)
    ELSE ClosingBrace(tpl, i + 1, depth)

RECURSIVE FormatFrom(_, _, _, _)
\* str.format from piece i on: a "{" opens a replacement field whose name runs up
\* to the ":" or the closing "}" and is looked up in the keyword arguments
FormatFrom(tpl, i, kwargs, out) ==
    IF i > Len(tpl) THEN [exc |-> "none", val |-> out]
    ELSE IF tpl[i] = "{"
         THEN LET close == ClosingBrace(tpl, i + 1, 0)
                  name == IF i + 1 < close /\ tpl[i + 1] \notin {"{", ":"}
                          THEN tpl[i + 1] ELSE ""
              IN IF close = 0 THEN [exc |-> "ValueError", val |-> out]
                 ELSE IF name \notin DOMAIN kwargs THEN [exc |-> "KeyError", val |-> out]
                 ELSE FormatFrom(tpl, close + 1, kwargs, out \o kwargs[name])
    ELSE IF tpl[i] = "}" THEN [exc |-> "ValueError", val |-> out]
    ELSE FormatFrom(tpl, i + 1, kwargs, Append(out, tpl[i]))

\* template.format(**kwargs)
Format(tpl, kwargs) == FormatFrom(tpl, 1, kwargs, <<>>)

----------------------------------------------------------------------------
(* The model replies and json.loads *)

\* response.text of the replies the model is given to make
ModelReplies ==
    { "not json",
      "",
      "\"not json\"",
      "[]",
      "5",
      "null",
      "{}",
      "{\"speakers_identified\": 5}",
      "{\"speakers_identified\": \"ab\"}",
      "{\"speakers_identified\": [\"Alice\", \"Bob\"], \"confidence_overall\": 0.87}",
      "{\"summary\": \"A friendly exchange\"}" }

\* json.loads(text) on each of those texts: [exc, val]
JsonLoads(text) ==
    CASE text = "\"not json\"" ->
            [exc |-> "none", val |-> PyStr(<<"n", "o", "t", " ", "j", "s", "o", "n">>)]
      [] text = "[]" -> [exc |-> "none", val |-> PyList(<<>>)]
      [] text = "5" -> [exc |-> "none", val |-> PyInt(5)]
      [] text = "null" -> [exc |-> "none", val |-> PyNone]
      [] text = "{}" -> [exc |-> "none", val |-> EmptyDict]
      [] text = "{\"speakers_identified\": 5}" ->
            [exc |-> "none", val |-> PyDict([speakers_identified |-> PyInt(5)])]
      [] text = "{\"speakers_identified\": \"ab\"}" ->
            [exc |-> "none", val |-> PyDict([speakers_identified |-> PyStr(<<"a", "b">>)])]
      [] text = "{\"speakers_identified\": [\"Alice\", \"Bob\"], \"confidence_overall\": 0.87}" ->
            [exc |-> "none",
             val |-> PyDict([speakers_identified |-> PyList(<<PyStr(<<"Alice">>), PyStr(<<"Bob">>)>>),
                             confidence_overall |-> PyFloat("0.87")])]
      [] text = "{\"summary\": \"A friendly exchange\"}" ->
            [exc |-> "none", val |-> PyDict([summary |-> PyStr(<<"A friendly exchange">>)])]
      [] OTHER -> [exc |-> "JSONDecodeError", val |-> PyNone]

----------------------------------------------------------------------------
(* Routes, their rate limits and their authorization requirement *)

AnalysisRoutes ==
    {"identify_speakers", "analyze_conversation", "analyze_response_impact",
     "analyze_profile", "analyze_self_profile"}

\* the routes wrapped by @validate_api_key
AuthRoutes == AnalysisRoutes \cup {"sync_upload", "sync_download", "delete_user_data"}

\* the routes registered with @app.route
Routes == AuthRoutes \cup {"health_check", "get_behaviors", "get_behavior_categories"}

\* Limiter(default_limits=["1000 per day", "100 per hour"])
\* in the order the limiter evaluates them, the shortest period first
DefaultLimits == <<[amount |-> 100, per |-> "hour"], [amount |-> 1000, per |-> "day"]>>

\* @limiter.limit("N per minute") of the route; a route without the decorator
\* gets the default limits, a decorated route gets its own limit only
RouteLimits(route) ==
    CASE route \in {"identify_speakers", "analyze_response_impact"} ->
            <<[amount |-> 30, per |-> "minute"]>>
      [] route = "analyze_conversation" -> <<[amount |-> 20, per |-> "minute"]>>
      [] route \in {"analyze_profile", "analyze_self_profile", "sync_upload", "sync_download"} ->
            <<[amount |-> 10, per |-> "minute"]>>
      [] route = "get_behaviors" -> <<[amount |-> 60, per |-> "minute"]>>
      [] route = "delete_user_data" -> <<[amount |-> 5, per |-> "minute"]>>
      [] OTHER -> DefaultLimits

\* the body fields each handler asks for, in the order it asks
RequiredFields(route) ==
    CASE route = "identify_speakers" -> <<"text">>
      [] route = "analyze_conversation" -> <<"conversation", "speakers">>
      [] route = "analyze_response_impact" -> <<"conversation", "user_speaker", "draft_response">>
      [] route = "analyze_profile" -> <<"profile_data">>
      [] route = "analyze_self_profile" -> <<"user_data">>
      [] route = "sync_upload" -> <<"encrypted_data", "user_hash">>
      [] route \in {"sync_download", "delete_user_data"} -> <<"user_hash">>
      [] OTHER -> <<>>

----------------------------------------------------------------------------
(* The requests the callers send *)

\* @app.route(rule, ...): the URL rule of each view
UrlRule(route) ==
    CASE route = "health_check" -> "/health"
      [] route = "identify_speakers" -> "/api/v1/analyze/identify-speakers"
      [] route = "analyze_conversation" -> "/api/v1/analyze/conversation"
      [] route = "analyze_response_impact" -> "/api/v1/analyze/response-impact"
      [] route = "analyze_profile" -> "/api/v1/analyze/profile"
      [] route = "analyze_self_profile" -> "/api/v1/analyze/self-profile"
      [] route = "get_behaviors" -> "/api/v1/behaviors"
      [] route = "get_behavior_categories" -> "/api/v1/behaviors/categories"
      [] route = "sync_upload" -> "/api/v1/sync/upload"
      [] route = "sync_download" -> "/api/v1/sync/download"
      [] route = "delete_user_data" -> "/api/v1/user/delete"

\* @app.route(..., methods=[...]): the methods each view is registered for
Methods(route) ==
    CASE route \in {"health_check", "get_behaviors", "get_behavior_categories"} -> {"GET"}
      [] route = "delete_user_data" -> {"DELETE"}
      [] OTHER -> {"POST"}

\* the methods the callers use
HttpMethods == {"GET", "POST", "DELETE"}

\* the paths the callers ask for: the registered ones and one that is not
Paths == {UrlRule(route) : route \in Routes} \cup {"/nonexistent/endpoint"}

\* the URL map of the app: the view a path and method lead to, or the routing
\* error NotFound ("404") or MethodNotAllowed ("405")
Match(path, method) ==
    LET rules == {route \in Routes : UrlRule(route) = path}
    IN IF rules = {} THEN "404"
       ELSE IF \E route \in rules : method \in Methods(route)
       THEN CHOOSE route \in rules : method \in Methods(route)
       ELSE "405"

\* get_remote_address: the caller addresses
Callers == {"10.0.0.1", "10.0.0.2"}

\* datetime.utcnow().isoformat() at the time of the request
Times == {"2024-01-01T00:00:00"}

Periods == {"minute", "hour", "day"}

\* the Authorization header: absent, or present with a value
NoAuthorization == [present |-> FALSE, value |-> <<>>]
Authorization(value) == [present |-> TRUE, value |-> value]

BearerPrefix == <<"B", "e", "a", "r", "e", "r", " ">>

AuthHeaders ==
    { NoAuthorization,
      Authorization(<<"T", "o", "k", "e", "n", " ", "a">>),
      Authorization(BearerPrefix \o <<"t">>) }

\* a well-formed value for each body field
SampleValue(field) ==
    CASE field = "text" -> PyStr(<<"<b>", "H", "i", "</b>">>)
      [] field = "conversation" -> PyList(<<PyStr(<<"H", "i">>)>>)
      [] field = "speakers" -> PyList(<<PyStr(<<"Alice">>)>>)
      [] field = "user_speaker" -> PyStr(<<"A">>)
      [] field = "draft_response" -> PyStr(<<"O", "k">>)
      [] field = "profile_data" -> PyDict([name |-> PyStr(<<"T">>)])
      [] field = "user_data" -> PyDict([conversations |-> PyList(<<>>)])
      [] field = "encrypted_data" -> PyStr(<<"x">>)
      [] field = "user_hash" -> PyStr(<<"a", "b", "c">>)

Range(seq) == {seq[i] : i \in 1..Len(seq)}

\* a JSON object holding the given fields
ObjectWith(fields) == PyDict([k \in fields |-> SampleValue(k)])

\* the well-formed object of a route with one field given another value
ObjectBut(route, field, value) ==
    PyDict([k \in Range(RequiredFields(route)) |-> IF k = field THEN value ELSE SampleValue(k)])

\* a user_hash of 65 characters: 64 times "a", then the given one
LongUserHash(last) == PyStr([i \in 1..65 |-> IF i <= 64 THEN "a" ELSE last])

\* <<field, value>>: the values sent in a field that are empty, made of markup
\* only, of the wrong JSON type, or longer than the handler keeps
OddValues(route) ==
    CASE route = "identify_speakers" ->
            {<<"text", PyStr(<<>>)>>, <<"text", PyStr(<<"<b>", "</b>">>)>>, <<"text", PyInt(5)>>}
      [] route = "analyze_response_impact" ->
            {<<"draft_response", PyStr(<<>>)>>, <<"draft_response", PyNone>>,
             <<"user_speaker", PyStr(<<"<b>", "</b>">>)>>}
      [] route \in {"sync_upload", "delete_user_data"} ->
            {<<"user_hash", PyInt(5)>>, <<"user_hash", LongUserHash("x")>>,
             <<"user_hash", LongUserHash("y")>>}
      [] route = "sync_download" -> {<<"user_hash", PyInt(5)>>}
      [] OTHER -> {}

\* request.get_json() of the bodies sent to a route: [exc, val].  A body that is
\* not JSON makes get_json raise; the others are null, a number, {} and objects
\* with all the required fields, all but one, or one odd value.
Bodies(route) ==
    LET need == Range(RequiredFields(route))
        got(v) == [exc |-> "none", val |-> v]
    IN IF need = {} THEN {got(PyNone)}
       ELSE {[exc |-> "BadRequest", val |-> PyNone], got(PyNone), got(PyInt(5)), got(EmptyDict),
             got(ObjectWith(need))}
            \cup {got(ObjectWith(need \ {k})) : k \in need}
            \cup {got(ObjectBut(route, o[1], o[2])) : o \in OddValues(route)}

\* what model.generate_content does for the request: raise, or return a reply
NoUpstream == [raises |-> FALSE, text |-> ""]
ModelRaises(message) == [raises |-> TRUE, text |-> message]
ModelReturns(text) == [raises |-> FALSE, text |-> text]

\* str(e) of the exceptions the model call raises
UpstreamErrors == {"API rate limit", "403 API key not valid: AIza-key"}

Upstreams(route) ==
    IF route \in AnalysisRoutes
    THEN {ModelRaises(m) : m \in UpstreamErrors} \cup {ModelReturns(t) : t \in ModelReplies}
    ELSE {NoUpstream}

\* the reply of a cooperating model
GoodReply(route) ==
    IF route = "identify_speakers"
    THEN ModelReturns("{\"speakers_identified\": [\"Alice\", \"Bob\"], \"confidence_overall\": 0.87}")
    ELSE IF route \in AnalysisRoutes
    THEN ModelReturns("{\"summary\": \"A friendly exchange\"}")
    ELSE NoUpstream

\* The requests sent to a route, as <<header, body, model behaviour>>: every
\* header with every body while the model cooperates, and every model behaviour
\* for the well-formed request with a bearer header
Inputs(route) ==
    {<<a, b, GoodReply(route)>> : a \in AuthHeaders, b \in Bodies(route)}
    \cup {<<Authorization(BearerPrefix \o <<"t">>),
            [exc |-> "none", val |-> ObjectWith(Range(RequiredFields(route)))], u>> :
          u \in Upstreams(route)}

----------------------------------------------------------------------------
(* The response builders *)

\* create_accessible_response with data_type always 'dict'
create_accessible_response_dict(data, message, now) ==
    [success |-> TRUE,
     message |-> message,
     timestamp |-> now,
     data |-> data,
     accessibility |-> [screen_reader_summary |-> message, data_type |-> "dict"]]

\* create_accessible_response(data, message): the body of a 200 response
create_accessible_response(data, message, now) ==
    [success |-> TRUE,
     message |-> message,
     timestamp |-> now,
     data |-> data,
     accessibility |-> [screen_reader_summary |-> message, data_type |-> data.t]]

\* create_error_response with the bare error as screen_reader_summary
create_error_response_bare(error, details, status_code, now) ==
    [status |-> status_code,
     body |-> [success |-> FALSE,
               error |-> error,
               details |-> details,
               timestamp |-> now,
               accessibility |-> [screen_reader_summary |-> error,
                                  suggested_action |-> "Please try again or contact support"]]]

\* create_error_response(error, details, status_code)
create_error_response(error, details, status_code, now) ==
    [status |-> status_code,
     body |-> [success |-> FALSE,
               error |-> error,
               details |-> details,
               timestamp |-> now,
               accessibility |-> [screen_reader_summary |-> "Error: " \o error,
                                  suggested_action |-> "Please try again or contact support"]]]

\* str(e) of the exceptions a view catches, by type or by message
Exceptions ==
    {"BadRequest", "TypeError", "KeyError", "ValueError", "AttributeError", "JSONDecodeError"}
    \cup UpstreamErrors

\* Failure with str(e) put into the response
FailureShowsException(error, details, e, now) == create_error_response(error, e, 500, now)

\* except Exception as e: logger.error(f"...: {str(e)}") and then
\* return create_error_response(error, details, 500): e goes to the log only
Failure(error, details, e, now) == create_error_response(error, details, 500, now)

\* genai.types.GenerationConfig(...): the keyword arguments a view passes, the
\* temperature in tenths
NoConfig == [k \in {} |-> 0]
ConfigIdentifySpeakers == [temperature |-> 3, response_mime_type |-> "application/json"]
ConfigConversation ==
    [temperature |-> 4, max_output_tokens |-> 8192, response_mime_type |-> "application/json"]
ConfigResponseImpact ==
    [temperature |-> 5, max_output_tokens |-> 4096, response_mime_type |-> "application/json"]
ConfigProfile ==
    [temperature |-> 4, max_output_tokens |-> 8192, response_mime_type |-> "application/json"]
ConfigSelfProfile ==
    [temperature |-> 4, max_output_tokens |-> 8192, response_mime_type |-> "application/json"]

\* generate_content that calls the model a second time when the first call raises
generate_content_retried(upstream, config) ==
    [exc |-> IF upstream.raises THEN upstream.text ELSE "none",
     text |-> upstream.text,
     calls |-> IF upstream.raises THEN 2 ELSE 1,
     config |-> config]

\* response = model.generate_content(prompt, generation_config=...): one blocking
\* call that returns the reply or raises: [exc, text, calls, config]
generate_content(upstream, config) ==
    [exc |-> IF upstream.raises THEN upstream.text ELSE "none",
     text |-> upstream.text,
     calls |-> 1,
     config |-> config]

\* what a view did for a request: the response, the number of calls of
\* model.generate_content, the prompt of the call and the tag of the parse
Outcome(status, body, calls, prompt, resolved) ==
    [status |-> status, body |-> body, calls |-> calls, prompt |-> prompt, resolved |-> resolved,
     config |-> NoConfig]

\* the outcome of a view that called the model: the generation_config of the call
Called(response, outcome) == [outcome EXCEPT !.config = response.config]

\* the view returned create_error_response(...)
Rejected(e, calls, prompt, resolved) == Outcome(e.status, e.body, calls, prompt, resolved)

\* the view returned jsonify(create_accessible_response(...))
Accepted(body, calls, prompt, resolved) == Outcome(200, body, calls, prompt, resolved)

\* result.get(key, default): AttributeError for a value that is no dict
PyGet(v, key, default) ==
    IF v.t = "dict"
    THEN [exc |-> "none", val |-> IF key \in DOMAIN v.f THEN v.f[key] ELSE default]
    ELSE [exc |-> "AttributeError", val |-> default]

RECURSIVE FirstMissing(_, _)
\* for field in required_fields: if field not in data: [exc, missing]
FirstMissing(fields, data) ==
    IF fields = <<>> THEN [exc |-> "none", missing |-> ""]
    ELSE LET has == PyIn(Head(fields), data)
         IN IF has.exc # "none" THEN [exc |-> has.exc, missing |-> ""]
            ELSE IF ~has.val THEN [exc |-> "none", missing |-> Head(fields)]
            ELSE FirstMissing(Tail(fields), data)

----------------------------------------------------------------------------
(* The views *)

\* GET /health
health_check(rq) ==
    Outcome(200,
            [status |-> "healthy", service |-> "text-decoder-api",
             version |-> "1.0.0-mvp", timestamp |-> rq.now],
            0, <<>>, "none")

\* the fallback of identify_speakers on json.JSONDecodeError
SpeakerFallback(text) ==
    PyDict([speakers_identified |-> PyList(<<PyStr(<<"Speaker 1">>), PyStr(<<"Speaker 2">>)>>),
            messages |-> PyList(<<>>),
            analysis_notes |-> PyStr(<<text>>),
            confidence_overall |-> PyFloat("0.5"),
            raw_response |-> PyStr(<<text>>)])

\* POST /api/v1/analyze/identify-speakers
identify_speakers(rq) ==
    LET data == rq.body
        fail(e, calls, prompt, resolved) ==
            Rejected(Failure("Analysis failed",
                             "Unable to process the conversation. Please try again.", e, rq.now),
                     calls, prompt, resolved)
        has == PyIn("text", data.val)
        item == PyGetItem(data.val, "text")
        text == sanitize_input(item.val)
        prompt == SPEAKER_IDENTIFICATION_PROMPT \o text.val
        response == generate_content(rq.upstream, ConfigIdentifySpeakers)
        parsed == JsonLoads(response.text)
        resolved == IF parsed.exc = "none" THEN "ok" ELSE "fallback"
        result == IF parsed.exc = "none" THEN parsed.val ELSE SpeakerFallback(response.text)
        speakers == PyGet(result, "speakers_identified", PyList(<<>>))
        n == PyLen(speakers.val)
    IN IF data.exc # "none" THEN fail(data.exc, 0, <<>>, "none")
       ELSE IF ~Truthy(data.val)
       THEN Rejected(create_error_response("Missing required field",
                        "The 'text' field is required", 400, rq.now), 0, <<>>, "none")
       ELSE IF has.exc # "none" THEN fail(has.exc, 0, <<>>, "none")
       ELSE IF ~has.val
       THEN Rejected(create_error_response("Missing required field",
                        "The 'text' field is required", 400, rq.now), 0, <<>>, "none")
       ELSE IF item.exc # "none" THEN fail(item.exc, 0, <<>>, "none")
       ELSE IF text.exc # "none" THEN fail(text.exc, 0, <<>>, "none")
       ELSE IF text.val = <<>>
       THEN Rejected(create_error_response("Invalid input",
                        "Text cannot be empty after sanitization", 400, rq.now), 0, <<>>, "none")
       ELSE IF response.exc # "none"
       THEN Called(response, fail(response.exc, response.calls, prompt, "none"))
       ELSE IF speakers.exc # "none"
       THEN Called(response, fail(speakers.exc, response.calls, prompt, resolved))
       ELSE IF n.exc # "none"
       THEN Called(response, fail(n.exc, response.calls, prompt, resolved))
       ELSE Called(response,
                   Accepted(create_accessible_response(result,
                               "Identified " \o ToString(n.val) \o " speakers in the conversation",
                               rq.now),
                            response.calls, prompt, resolved))

\* get_default_behavior_library()
get_default_behavior_library(now) ==
    PyDict([version |-> PyStr(<<"1.0.0">>),
            last_updated |-> PyStr(<<now>>),
            categories |-> PyList(<<>>)])

\* [cat['category'] for cat in behaviors.get('categories', [])]
CategoryNames(behaviors) ==
    LET cats == PyGet(behaviors, "categories", PyList(<<>>)).val.items
    IN PyList([i \in 1..Len(cats) |-> cats[i].f["category"]])

\* get_behavior_categories() called from a view of another method: the bare list
BehaviorCategoryList(now) == CategoryNames(get_default_behavior_library(now))

\* the model call and the parse-or-fallback that end the four templated views
\* failure maps str(e) of the exception caught to the view's 500 response
InvokeAndResolve(rq, rendered, config, fallback, message, failure) ==
    LET response == generate_content(rq.upstream, config)
        parsed == JsonLoads(response.text)
    IN IF rendered.exc # "none" THEN Rejected(failure[rendered.exc], 0, <<>>, "none")
       ELSE IF response.exc # "none"
       THEN Called(response,
                   Rejected(failure[response.exc], response.calls, rendered.val, "none"))
       ELSE IF parsed.exc = "none"
       THEN Called(response,
                   Accepted(create_accessible_response(parsed.val, message, rq.now),
                            response.calls, rendered.val, "ok"))
       ELSE Called(response,
                   Accepted(create_accessible_response(fallback, message, rq.now),
                            response.calls, rendered.val, "fallback"))

\* the field check that opens the templated views, then the rest of the view
WithFields(rq, failure, rest) ==
    LET miss == FirstMissing(RequiredFields(rq.route), rq.body.val)
    IN IF rq.body.exc # "none" THEN Rejected(failure[rq.body.exc], 0, <<>>, "none")
       ELSE IF miss.exc # "none" THEN Rejected(failure[miss.exc], 0, <<>>, "none")
       ELSE IF miss.missing # ""
       THEN Rejected(create_error_response("Missing required field",
                        "The '" \o miss.missing \o "' field is required", 400, rq.now),
                     0, <<>>, "none")
       ELSE rest

\* sanitize_input(json.dumps(data[field])): [exc, val]
SanitizedJson(data, field) ==
    LET item == PyGetItem(data, field)
    IN IF item.exc # "none" THEN [exc |-> item.exc, val |-> <<>>]
       ELSE sanitize_input(PyStr(JsonDumps(item.val)))

\* sanitize_input(data[field]): [exc, val]
SanitizedField(data, field) ==
    LET item == PyGetItem(data, field)
    IN IF item.exc # "none" THEN [exc |-> item.exc, val |-> <<>>]
       ELSE sanitize_input(item.val)

\* the first exception among the steps, or the rendered prompt
Render(steps, tpl, kwargs) ==
    LET raised == {i \in 1..Len(steps) : steps[i].exc # "none"}
    IN IF raised # {}
       THEN [exc |-> steps[CHOOSE i \in raised : \A j \in raised : i <= j].exc, val |-> <<>>]
       ELSE Format(tpl, kwargs)

\* POST /api/v1/analyze/conversation
analyze_conversation(rq) ==
    LET failure == [e \in Exceptions |->
                        Failure("Analysis failed", "Unable to analyze the conversation. Please try again.",
                                e, rq.now)]
        conversation == SanitizedJson(rq.body.val, "conversation")
        speakers == PyGetItem(rq.body.val, "speakers")
        rendered == Render(<<conversation, speakers>>, CONVERSATION_ANALYSIS_PROMPT,
                           [speakers |-> JsonDumps(speakers.val),
                            behavior_categories |-> JsonDumps(BehaviorCategoryList(rq.now)),
                            conversation |-> conversation.val])
        fallback == PyDict([summary |-> PyStr(<<"Analysis completed">>),
                            raw_analysis |-> PyStr(<<rq.upstream.text>>),
                            parse_error |-> PyBool(TRUE)])
    IN WithFields(rq, failure,
                  InvokeAndResolve(rq, rendered, ConfigConversation, fallback,
                                   "Conversation analysis complete", failure))

\* POST /api/v1/analyze/response-impact
analyze_response_impact(rq) ==
    LET failure == [e \in Exceptions |->
                        Failure("Analysis failed", "Unable to analyze response impact. Please try again.",
                                e, rq.now)]
        conversation == SanitizedJson(rq.body.val, "conversation")
        user_speaker == SanitizedField(rq.body.val, "user_speaker")
        draft_response == SanitizedField(rq.body.val, "draft_response")
        rendered == Render(<<conversation, user_speaker, draft_response>>, RESPONSE_IMPACT_PROMPT,
                           [user_speaker |-> user_speaker.val,
                            draft_response |-> draft_response.val,
                            conversation |-> conversation.val])
        fallback == PyDict([impact_analysis |-> PyDict([raw |-> PyStr(<<rq.upstream.text>>)]),
                            parse_error |-> PyBool(TRUE)])
    IN WithFields(rq, failure,
                  InvokeAndResolve(rq, rendered, ConfigResponseImpact, fallback,
                                   "Response impact analysis complete", failure))

\* POST /api/v1/analyze/profile
analyze_profile(rq) ==
    LET failure == [e \in Exceptions |->
                        Failure("Analysis failed", "Unable to generate profile analysis. Please try again.",
                                e, rq.now)]
        profile_data == SanitizedJson(rq.body.val, "profile_data")
        rendered == Render(<<profile_data>>, PROFILE_ANALYSIS_PROMPT,
                           [profile_data |-> profile_data.val])
        fallback == PyDict([profile_summary |-> PyStr(<<"Profile analysis completed">>),
                            raw_analysis |-> PyStr(<<rq.upstream.text>>),
                            parse_error |-> PyBool(TRUE)])
    IN WithFields(rq, failure,
                  InvokeAndResolve(rq, rendered, ConfigProfile, fallback,
                                   "Profile analysis complete", failure))

\* POST /api/v1/analyze/self-profile
analyze_self_profile(rq) ==
    LET failure == [e \in Exceptions |->
                        Failure("Analysis failed", "Unable to generate self-profile analysis. Please try again.",
                                e, rq.now)]
        user_data == SanitizedJson(rq.body.val, "user_data")
        rendered == Render(<<user_data>>, SELF_PROFILE_PROMPT, [user_data |-> user_data.val])
        fallback == PyDict([honest_summary |-> PyStr(<<"Self-analysis completed">>),
                            raw_analysis |-> PyStr(<<rq.upstream.text>>),
                            parse_error |-> PyBool(TRUE)])
    IN WithFields(rq, failure,
                  InvokeAndResolve(rq, rendered, ConfigSelfProfile, fallback,
                                   "Self-profile analysis complete", failure))

RECURSIVE SeqSum(_)
SeqSum(ns) == IF ns = <<>> THEN 0 ELSE Head(ns) + SeqSum(Tail(ns))

\* count_behaviors(library)
count_behaviors(library) ==
    LET items(v, key) == PyGet(v, key, PyList(<<>>)).val.items
        inSub(sub) == Len(items(sub, "behaviors"))
        inCat(cat) == SeqSum([j \in 1..Len(items(cat, "subcategories")) |->
                                inSub(items(cat, "subcategories")[j])])
    IN SeqSum([i \in 1..Len(items(library, "categories")) |->
                 inCat(items(library, "categories")[i])])

\* data/behavior_library.json as a request finds it: absent, unreadable as JSON,
\* or a library of one category.  The two views of the library are sent while
\* the file is in each of these states.
SampleLibrary ==
    PyDict([version |-> PyStr(<<"1.0.0">>),
            categories |-> PyList(<<
                PyDict([category |-> PyStr(<<"Communication Styles">>),
                        subcategories |-> PyList(<<
                            PyDict([name |-> PyStr(<<"Assertive">>),
                                    behaviors |-> PyList(<<PyStr(<<"assert_1">>),
                                                           PyStr(<<"assert_2">>)>>)])>>)])>>)])

NoLibraryFile == [exists |-> FALSE, exc |-> "none", val |-> PyNone]
LibraryFiles(route) ==
    IF route \in {"get_behaviors", "get_behavior_categories"}
    THEN {NoLibraryFile,
          [exists |-> TRUE, exc |-> "JSONDecodeError", val |-> PyNone],
          [exists |-> TRUE, exc |-> "none", val |-> SampleLibrary]}
    ELSE {NoLibraryFile}

\* GET /api/v1/behaviors
get_behaviors(rq) ==
    LET behaviors == IF rq.library.exists THEN rq.library.val
                     ELSE get_default_behavior_library(rq.now)
    IN IF rq.library.exists /\ rq.library.exc # "none"
       THEN Rejected(Failure("Failed to load behaviors",
                             "Unable to retrieve the behavior library.", rq.library.exc, rq.now),
                     0, <<>>, "none")
       ELSE Accepted(create_accessible_response(behaviors,
                        "Loaded " \o ToString(count_behaviors(behaviors)) \o " behaviors and traits",
                        rq.now),
                     0, <<>>, "none")

\* GET /api/v1/behaviors/categories
get_behavior_categories(rq) ==
    Accepted(create_accessible_response(PyDict([categories |-> BehaviorCategoryList(rq.now)]),
                                        "Categories loaded", rq.now),
             0, <<>>, "none")

\* Slice that keeps the whole value
SliceKeepsAll(v, n) ==
    CASE v.t \in {"str", "list"} -> [exc |-> "none", val |-> v]
      [] OTHER -> [exc |-> "TypeError", val |-> PyNone]

\* v[:n]: a str or a list is cut, anything else raises
Slice(v, n) ==
    CASE v.t = "str" -> [exc |-> "none", val |-> PyStr(Prefix(v.s, n))]
      [] v.t = "list" -> [exc |-> "none", val |-> PyList(Prefix(v.items, n))]
      [] OTHER -> [exc |-> "TypeError", val |-> PyNone]

\* f"{v}"
PyFormatValue(v) == IF v.t = "str" THEN v.s ELSE JsonDumps(v)

\* hashlib.sha256(text.encode()).hexdigest()[:n], kept as the text it digests
Sha256Hex(text, n) == PyStr(<<"sha256(">> \o text \o <<")[:" \o ToString(n) \o "]">>)

\* POST /api/v1/sync/upload
sync_upload(rq) ==
    LET data == rq.body
        fail(e) == Rejected(Failure("Sync failed", "Unable to sync data. Please try again.", e, rq.now),
                           0, <<>>, "none")
        miss == FirstMissing(RequiredFields(rq.route), data.val)
        item == PyGetItem(data.val, "user_hash")
        user_hash == Slice(item.val, 64)
    IN IF data.exc # "none" THEN fail(data.exc)
       ELSE IF miss.exc # "none" THEN fail(miss.exc)
       ELSE IF miss.missing # ""
       THEN Rejected(create_error_response("Missing required fields",
                        "Both 'encrypted_data' and 'user_hash' are required", 400, rq.now),
                     0, <<>>, "none")
       ELSE IF item.exc # "none" THEN fail(item.exc)
       ELSE IF user_hash.exc # "none" THEN fail(user_hash.exc)
       ELSE Accepted(create_accessible_response(
                        PyDict([sync_id |-> Sha256Hex(PyFormatValue(user_hash.val) \o <<rq.now>>, 32),
                                timestamp |-> PyStr(<<rq.now>>),
                                status |-> PyStr(<<"stored">>)]),
                        "Data synced successfully", rq.now),
                     0, <<>>, "none")

\* sync_download that hands back what the caller's user_hash names
sync_download_stored(rq) ==
    Accepted(create_accessible_response(
                PyDict([encrypted_data |-> PyStr(<<"x">>),
                        last_sync |-> PyStr(<<rq.now>>),
                        status |-> PyStr(<<"found">>)]),
                "Sync data found", rq.now),
             0, <<>>, "none")

\* POST /api/v1/sync/download
sync_download(rq) ==
    LET data == rq.body
        fail(e) == Rejected(Failure("Sync failed", "Unable to retrieve sync data. Please try again.", e, rq.now),
                           0, <<>>, "none")
        miss == FirstMissing(RequiredFields(rq.route), data.val)
    IN IF data.exc # "none" THEN fail(data.exc)
       ELSE IF miss.exc # "none" THEN fail(miss.exc)
       ELSE IF miss.missing # ""
       THEN Rejected(create_error_response("Missing required field",
                        "The 'user_hash' field is required", 400, rq.now), 0, <<>>, "none")
       ELSE Accepted(create_accessible_response(
                        PyDict([encrypted_data |-> PyNone,
                                last_sync |-> PyNone,
                                status |-> PyStr(<<"no_data">>)]),
                        "No sync data found", rq.now),
                     0, <<>>, "none")

\* DELETE /api/v1/user/delete
delete_user_data(rq) ==
    LET data == rq.body
        fail(e) == Rejected(Failure("Deletion failed", "Unable to delete data. Please contact support.", e, rq.now),
                           0, <<>>, "none")
        miss == FirstMissing(RequiredFields(rq.route), data.val)
        item == PyGetItem(data.val, "user_hash")
        user_hash == Slice(item.val, 64)
    IN IF data.exc # "none" THEN fail(data.exc)
       ELSE IF miss.exc # "none" THEN fail(miss.exc)
       ELSE IF miss.missing # ""
       THEN Rejected(create_error_response("Missing required field",
                        "The 'user_hash' field is required", 400, rq.now), 0, <<>>, "none")
       ELSE IF item.exc # "none" THEN fail(item.exc)
       ELSE IF user_hash.exc # "none" THEN fail(user_hash.exc)
       ELSE Accepted(create_accessible_response(
                        PyDict([deleted |-> PyBool(TRUE),
                                timestamp |-> PyStr(<<rq.now>>),
                                confirmation_code |->
                                    Sha256Hex(<<"deleted_">> \o PyFormatValue(user_hash.val)
                                              \o <<"_", rq.now>>, 16)]),
                        "All your data has been permanently deleted from our servers", rq.now),
                     0, <<>>, "none")

----------------------------------------------------------------------------
(* Admission: the limiter, then validate_api_key, then the view *)

Keys == Callers \X Routes \X Periods

RECURSIVE HitOffByOne(_, _, _, _)
\* Hit with the comparison against the limit off by one
HitOffByOne(h, caller, route, limits) ==
    IF limits = <<>> THEN [hits |-> h, ok |-> TRUE]
    ELSE LET k == <<caller, route, Head(limits).per>>
             h1 == [h EXCEPT ![k] = @ + 1]
         IN IF h1[k] < Head(limits).amount
            THEN HitOffByOne(h1, caller, route, Tail(limits))
            ELSE [hits |-> h1, ok |-> FALSE]

RECURSIVE HitKeyedByRouteOnly(_, _, _, _)
\* Hit with one counter per route for all the callers together
HitKeyedByRouteOnly(h, caller, route, limits) ==
    IF limits = <<>> THEN [hits |-> h, ok |-> TRUE]
    ELSE LET k == <<CHOOSE c \in Callers : TRUE, route, Head(limits).per>>
             h1 == [h EXCEPT ![k] = @ + 1]
         IN IF h1[k] <= Head(limits).amount
            THEN HitKeyedByRouteOnly(h1, caller, route, Tail(limits))
            ELSE [hits |-> h1, ok |-> FALSE]

RECURSIVE HitSparesRejected(_, _, _, _)
\* Hit that leaves the counter of a breached limit as it was
HitSparesRejected(h, caller, route, limits) ==
    IF limits = <<>> THEN [hits |-> h, ok |-> TRUE]
    ELSE LET k == <<caller, route, Head(limits).per>>
             h1 == [h EXCEPT ![k] = @ + 1]
         IN IF h1[k] <= Head(limits).amount
            THEN HitSparesRejected(h1, caller, route, Tail(limits))
            ELSE [hits |-> h, ok |-> FALSE]

RECURSIVE HitKeyedByCallerOnly(_, _, _, _)
\* Hit with one counter per caller for all the routes together
HitKeyedByCallerOnly(h, caller, route, limits) ==
    IF limits = <<>> THEN [hits |-> h, ok |-> TRUE]
    ELSE LET k == <<caller, "health_check", Head(limits).per>>
             h1 == [h EXCEPT ![k] = @ + 1]
         IN IF h1[k] <= Head(limits).amount
            THEN HitKeyedByCallerOnly(h1, caller, route, Tail(limits))
            ELSE [hits |-> h1, ok |-> FALSE]

RECURSIVE Hit(_, _, _, _)
\* the limiter's check of a request: every limit of the route counts the request
\* (the rejected ones too) until one is breached: [hits, ok]
Hit(h, caller, route, limits) ==
    IF limits = <<>> THEN [hits |-> h, ok |-> TRUE]
    ELSE LET k == <<caller, route, Head(limits).per>>
             h1 == [h EXCEPT ![k] = @ + 1]
         IN IF h1[k] <= Head(limits).amount
            THEN Hit(h1, caller, route, Tail(limits))
            ELSE [hits |-> h1, ok |-> FALSE]

\* the answer to NotFound where no handler is registered for it
not_found_unhandled(rq) == Outcome(404, [html |-> "404 Not Found"], 0, <<>>, "none")

\* @app.errorhandler(404)
not_found(rq) ==
    Rejected(create_error_response("Not Found", "The requested endpoint does not exist",
                                   404, rq.now),
             0, <<>>, "none")

\* no handler is registered for 405: the answer is the page of the exception
MethodNotAllowed == Outcome(405, [html |-> "405 Method Not Allowed"], 0, <<>>, "none")

\* @app.errorhandler(429)
rate_limit_exceeded(rq) ==
    Rejected(create_error_response("Rate Limit Exceeded",
                "Too many requests. Please wait before trying again.", 429, rq.now),
             0, <<>>, "none")

StartsWith(s, prefix) == Len(s) >= Len(prefix) /\ SubSeq(s, 1, Len(prefix)) = prefix

\* the test of validate_api_key: the header is there and starts with 'Bearer '
BearerShaped(auth) == auth.present /\ auth.value # <<>> /\ StartsWith(auth.value, BearerPrefix)

\* the 401 of validate_api_key
Unauthorized ==
    Outcome(401, [error |-> "Unauthorized", message |-> "Valid authentication token required"],
            0, <<>>, "none")

\* the view function of the route
View(rq) ==
    CASE rq.route = "health_check" -> health_check(rq)
      [] rq.route = "identify_speakers" -> identify_speakers(rq)
      [] rq.route = "analyze_conversation" -> analyze_conversation(rq)
      [] rq.route = "analyze_response_impact" -> analyze_response_impact(rq)
      [] rq.route = "analyze_profile" -> analyze_profile(rq)
      [] rq.route = "analyze_self_profile" -> analyze_self_profile(rq)
      [] rq.route = "get_behaviors" -> get_behaviors(rq)
      [] rq.route = "get_behavior_categories" -> get_behavior_categories(rq)
      [] rq.route = "sync_upload" -> sync_upload(rq)
      [] rq.route = "sync_download" -> sync_download(rq)
      [] rq.route = "delete_user_data" -> delete_user_data(rq)

\* how far a request got: whether validate_api_key ran, whether the view ran
Stage(authChecked, viewRan) == [authChecked |-> authChecked, viewRan |-> viewRan]

\* validate_api_key(f): 401 without a bearer-shaped header, else the view
validate_api_key(rq) ==
    IF ~BearerShaped(rq.auth) THEN Unauthorized @@ Stage(TRUE, FALSE)
    ELSE View(rq) @@ Stage(TRUE, TRUE)

\* the decorators of a route from the outside in: @limiter.limit (or the default
\* limits), then @validate_api_key where the route has it, then the view
Dispatch(rq, admitted) ==
    IF ~admitted THEN rate_limit_exceeded(rq) @@ Stage(FALSE, FALSE)
    ELSE IF rq.route \in AuthRoutes THEN validate_api_key(rq)
    ELSE View(rq) @@ Stage(FALSE, TRUE)

----------------------------------------------------------------------------
(* The state machine *)

NoRequest ==
    [caller |-> "", route |-> "none", path |-> "", method |-> "", auth |-> NoAuthorization,
     body |-> [exc |-> "none", val |-> PyNone], upstream |-> NoUpstream,
     now |-> "", library |-> NoLibraryFile]

NoResponse == [status |-> 0, body |-> [none |-> TRUE]]

NoTrail ==
    [admitted |-> FALSE, authChecked |-> FALSE, viewRan |-> FALSE,
     counts |-> [p \in Periods |-> 0], before |-> [p \in Periods |-> 0],
     calls |-> 0, prompt |-> <<>>, resolved |-> "none", config |-> NoConfig]

\* no helper function has been applied on its own
NoCall == [fn |-> "none", args |-> <<>>, now |-> "", ret |-> <<>>]

Init ==
    /\ hits = [k \in Keys |-> 0]
    /\ req = NoRequest
    /\ resp = NoResponse
    /\ trail = NoTrail
    /\ sent = [k \in Keys |-> 0]
    /\ call = NoCall

\* the (caller, route) pairs whose windows hold a count
ActivePairs(h) == {<<k[1], k[2]>> : k \in {x \in Keys : h[x] > 0}}

\* The callers the model follows: a caller stops sending to a route once it has
\* been counted MaxOver times past a limit, and the windows of one pair of caller
\* and route run out before another pair is sent to.
CanSend(caller, route) ==
    LET limits == RouteLimits(route)
    IN /\ \A i \in 1..Len(limits) :
            hits[<<caller, route, limits[i].per>>] < limits[i].amount + MaxOver
       /\ ActivePairs(hits) \subseteq {<<caller, route>>}

\* what the handling of a request leaves behind
Trail(rq, h, adm, out) ==
    [admitted |-> adm.ok,
     authChecked |-> out.authChecked,
     viewRan |-> out.viewRan,
     counts |-> [p \in Periods |-> adm.hits[<<rq.caller, rq.route, p>>]],
     before |-> [p \in Periods |-> h[<<rq.caller, rq.route, p>>]],
     calls |-> out.calls, prompt |-> out.prompt, resolved |-> out.resolved,
     config |-> out.config]

\* a caller sends one request and gets its response
Request(caller, route, auth, body, upstream, now, library) ==
    LET rq == [caller |-> caller, route |-> route, path |-> UrlRule(route),
               method |-> CHOOSE m \in Methods(route) : TRUE, auth |-> auth, body |-> body,
               upstream |-> upstream, now |-> now, library |-> library]
    IN \E adm \in {Hit(hits, caller, route, RouteLimits(route))} :
         \E out \in {Dispatch(rq, adm.ok)} :
            /\ hits' = adm.hits
            /\ req' = rq
            /\ resp' = [status |-> out.status, body |-> out.body]
            /\ trail' = Trail(rq, hits, adm, out)
            /\ sent' = [k \in Keys |-> IF k[1] = caller /\ k[2] = route
                                        THEN sent[k] + 1 ELSE sent[k]]
            /\ UNCHANGED call

\* the caller stays away from a route until all its windows have run out; the
\* last exchange is long over by then
WindowsExpire(caller, route) ==
    /\ <<caller, route>> \in ActivePairs(hits)
    /\ hits' = [k \in Keys |-> IF k[1] = caller /\ k[2] = route THEN 0 ELSE hits[k]]
    /\ req' = NoRequest
    /\ resp' = NoResponse
    /\ trail' = NoTrail
    /\ sent' = [k \in Keys |-> IF k[1] = caller /\ k[2] = route THEN 0 ELSE sent[k]]
    /\ UNCHANGED call

\* the model follows the requests that lead to no view while no window is open
CanSendUnrouted == \A k \in Keys : hits[k] = 0

\* a caller sends a request that the URL map leads to no view: the limiter has
\* no route to count it for, and the routing error is answered
Unrouted(caller, path, method, auth, now) ==
    LET rq == [NoRequest EXCEPT !.caller = caller, !.route = "unrouted", !.path = path,
                                !.method = method, !.auth = auth, !.now = now]
        out == IF Match(path, method) = "404" THEN not_found(rq) ELSE MethodNotAllowed
    IN /\ Match(path, method) \in {"404", "405"}
       /\ req' = rq
       /\ resp' = [status |-> out.status, body |-> out.body]
       /\ trail' = [NoTrail EXCEPT !.admitted = TRUE]
       /\ UNCHANGED <<hits, sent, call>>

Next ==
    \/ \E caller \in Callers, route \in Routes :
          /\ CanSend(caller, route)
          /\ \E input \in Inputs(route), now \in Times, library \in LibraryFiles(route) :
                Request(caller, route, input[1], input[2], input[3], now, library)
    \/ /\ CanSendUnrouted
       /\ \E caller \in Callers, path \in Paths, method \in HttpMethods, now \in Times :
             \E auth \in {NoAuthorization, Authorization(BearerPrefix \o <<"t">>)} :
                Unrouted(caller, path, method, auth, now)
    \/ \E caller \in Callers, route \in Routes : WindowsExpire(caller, route)

Spec == Init /\ [][Next]_vars

----------------------------------------------------------------------------
(* Callers side by side: the windows of several pairs of caller and route are *)
(* open at the same time                                                      *)

\* the routes the callers send to side by side
KeyedRoutes == {"delete_user_data", "sync_download"}

\* the requests they send: one without the header, one well-formed with it
KeyedInputs(route) ==
    {<<a, [exc |-> "none", val |-> ObjectWith(Range(RequiredFields(route)))], GoodReply(route)>> :
        a \in {NoAuthorization, Authorization(BearerPrefix \o <<"t">>)}}

\* a caller stops sending to a route once it has been counted MaxOver times past
\* the limit, and at most MaxOpenPairs pairs have open windows
CanSendKeyed(caller, route) ==
    LET limits == RouteLimits(route)
    IN /\ \A i \in 1..Len(limits) :
            hits[<<caller, route, limits[i].per>>] < limits[i].amount + MaxOver
       /\ Cardinality(ActivePairs(hits) \cup {<<caller, route>>}) <= MaxOpenPairs

NextKeyed ==
    \/ \E caller \in Callers, route \in KeyedRoutes :
          /\ CanSendKeyed(caller, route)
          /\ \E input \in KeyedInputs(route), now \in Times :
                Request(caller, route, input[1], input[2], input[3], now, NoLibraryFile)
    \/ \E caller \in Callers, route \in KeyedRoutes : WindowsExpire(caller, route)

SpecKeyed == Init /\ [][NextKeyed]_vars

----------------------------------------------------------------------------
(* A caller that keeps sending over the hour: the minute window of a route    *)
(* runs out and reopens while the hour and the day go on                      *)

\* the routes the caller keeps sending to: one with a quota of its own, one without
HourlyRoutes == {"delete_user_data", "health_check"}

\* the minute window of the pair runs out; its hour and day windows stay open
MinuteExpires(caller, route) ==
    /\ sent[<<caller, route, "minute">>] > 0
    /\ hits' = [hits EXCEPT ![<<caller, route, "minute">>] = 0]
    /\ sent' = [sent EXCEPT ![<<caller, route, "minute">>] = 0]
    /\ req' = NoRequest
    /\ resp' = NoResponse
    /\ trail' = NoTrail
    /\ UNCHANGED call

\* the caller stops once it has been counted MaxOver times past a limit or has
\* sent MaxOver requests past the hundredth of the hour, and it sends to one
\* route until the windows of that route have run out
CanSendHourly(caller, route) ==
    LET limits == RouteLimits(route)
    IN /\ \A i \in 1..Len(limits) :
            hits[<<caller, route, limits[i].per>>] < limits[i].amount + MaxOver
       /\ sent[<<caller, route, "hour">>] < DefaultLimits[1].amount + MaxOver
       /\ \A k \in Keys : sent[k] > 0 => (k[1] = caller /\ k[2] = route)

\* all the windows of the pair run out
HourExpires(caller, route) ==
    /\ sent[<<caller, route, "hour">>] > 0
    /\ hits' = [k \in Keys |-> IF k[1] = caller /\ k[2] = route THEN 0 ELSE hits[k]]
    /\ sent' = [k \in Keys |-> IF k[1] = caller /\ k[2] = route THEN 0 ELSE sent[k]]
    /\ req' = NoRequest
    /\ resp' = NoResponse
    /\ trail' = NoTrail
    /\ UNCHANGED call

NextHourly ==
    \/ \E caller \in Callers, route \in HourlyRoutes :
          /\ CanSendHourly(caller, route)
          /\ \E input \in KeyedInputs(route), now \in Times :
                Request(caller, route, input[1], input[2], input[3], now, NoLibraryFile)
    \/ \E caller \in Callers, route \in HourlyRoutes : MinuteExpires(caller, route)
    \/ \E caller \in Callers, route \in HourlyRoutes : HourExpires(caller, route)

SpecHourly == Init /\ [][NextHourly]_vars

----------------------------------------------------------------------------
(* A caller that syncs: uploads, downloads and deletions in any order *)

SyncRoutes == {"sync_upload", "sync_download", "delete_user_data"}

\* well-formed requests with the bearer header: uploads for one user_hash,
\* downloads and deletions for that one and for another
SyncInputs(route) ==
    LET body(v) == [exc |-> "none", val |-> v]
        bodies == {body(ObjectWith(Range(RequiredFields(route))))}
                  \cup (IF route = "sync_upload" THEN {}
                        ELSE {body(ObjectBut(route, "user_hash", LongUserHash("x")))})
    IN {<<Authorization(BearerPrefix \o <<"t">>), b, NoUpstream>> : b \in bodies}

\* a caller stops sending to a route once it has been counted MaxOver times past
\* the limit, and the windows of one caller run out before the other one syncs
CanSendSync(caller, route) ==
    LET limits == RouteLimits(route)
    IN /\ \A i \in 1..Len(limits) :
            hits[<<caller, route, limits[i].per>>] < limits[i].amount + MaxOver
       /\ \A k \in Keys : sent[k] > 0 => k[1] = caller

NextSync ==
    \/ \E caller \in Callers, route \in SyncRoutes :
          /\ CanSendSync(caller, route)
          /\ \E input \in SyncInputs(route), now \in Times :
                Request(caller, route, input[1], input[2], input[3], now, NoLibraryFile)
    \/ \E caller \in Callers, route \in SyncRoutes : WindowsExpire(caller, route)

SpecSync == Init /\ [][NextSync]_vars

----------------------------------------------------------------------------
(* The helper functions applied on their own: sanitize_input and the two     *)
(* response builders, to arguments drawn from bounded sets                   *)

\* the elements of the short texts: letters, a newline, a character outside
\* ASCII (e with acute), the characters & < > as plain text, and markup tags
TextAlphabet == {"a", "\n", "U+00E9", "&", "<", ">", "<b>", "</b>"}

\* the texts of at most MaxTextLen elements
ShortTexts == UNION {[1..n -> TextAlphabet] : n \in 0..MaxTextLen}

\* the texts around the cap: of the cap and one more, and just under the cap
\* followed by markup and text or by characters that bleach writes as entities
LongTexts ==
    {<<Run(SanitizeCap)>>, <<Run(SanitizeCap + 1)>>,
     <<Run(SanitizeCap - 2), "<b>", "x", "y", "z">>,
     <<Run(SanitizeCap - 2), "&", "&">>,
     <<Run(SanitizeCap - 1), "<", "b">>}

\* the arguments of sanitize_input: None, a number and the texts
SanitizeArgs == {PyNone, PyInt(5)} \cup {PyStr(t) : t \in ShortTexts \cup LongTexts}

\* the argument at position i of a call, or the default of the parameter
Arg(args, i, default) == IF Len(args) >= i THEN args[i] ELSE default

\* def create_accessible_response(data, message="Success") applied to args
create_accessible_response_args(args, now) ==
    create_accessible_response(args[1], Arg(args, 2, "Success"), now)

\* def create_error_response(error, details="", status_code=400) applied to args
create_error_response_args(args, now) ==
    create_error_response(args[1], Arg(args, 2, ""), Arg(args, 3, 400), now)

\* the data values, messages, errors, details and status codes the builders get
DataValues ==
    {EmptyDict, PyDict([key |-> PyStr(<<"value">>)]), PyList(<<>>), PyStr(<<"x">>),
     PyNone, PyInt(5)}
Messages == {"Test message", "Test", ""}
Errors == {"Test Error", "Not Found", "Server Error"}
Details == {"", "Details", "Resource missing"}
StatusCodes == {400, 404, 500}

\* the positional arguments of the calls of the two builders
SuccessArgs == {<<d>> : d \in DataValues} \cup (DataValues \X Messages)
ErrorArgs == {<<e>> : e \in Errors} \cup (Errors \X Details) \cup (Errors \X Details \X StatusCodes)

\* sanitize_input(v)
Sanitize(v) ==
    /\ call' = [fn |-> "sanitize_input", args |-> <<v>>, now |-> "", ret |-> sanitize_input(v)]
    /\ UNCHANGED <<hits, req, resp, trail, sent>>

\* create_accessible_response(*args)
BuildSuccess(args, now) ==
    /\ call' = [fn |-> "create_accessible_response", args |-> args, now |-> now,
                ret |-> create_accessible_response_args(args, now)]
    /\ UNCHANGED <<hits, req, resp, trail, sent>>

\* create_error_response(*args)
BuildError(args, now) ==
    /\ call' = [fn |-> "create_error_response", args |-> args, now |-> now,
                ret |-> create_error_response_args(args, now)]
    /\ UNCHANGED <<hits, req, resp, trail, sent>>

NextHelpers ==
    \/ \E v \in SanitizeArgs : Sanitize(v)
    \/ \E args \in SuccessArgs, now \in Times : BuildSuccess(args, now)
    \/ \E args \in ErrorArgs, now \in Times : BuildError(args, now)

SpecHelpers == Init /\ [][NextHelpers]_vars

----------------------------------------------------------------------------
(* Properties *)

\* a request has been handled and its response is in resp
Handled == req.route # "none"

\* the two envelope shapes
IsSuccessEnvelope(b) ==
    /\ DOMAIN b = {"success", "message", "timestamp", "data", "accessibility"}
    /\ b.success = TRUE

IsErrorEnvelope(b) ==
    /\ DOMAIN b = {"success", "error", "details", "timestamp", "accessibility"}
    /\ b.success = FALSE

\* C1: every response, of any route and any outcome, is one of the two envelope
\* shapes and so carries a `success` field.
C1_EveryResponseIsEnvelope ==
    Handled => IsSuccessEnvelope(resp.body) \/ IsErrorEnvelope(resp.body)

\* C2: on an auth-required route a request without a bearer-shaped header gets
\* 401 whatever the counters hold, and the rate limit does not count it.
C2_UnauthorizedBeforeRateLimit ==
    (Handled /\ req.route \in AuthRoutes /\ ~BearerShaped(req.auth))
        => (resp.status = 401 /\ trail.counts = trail.before)

\* C3: an auth-required route answers 401 exactly when the header is absent or
\* lacks the 'Bearer ' prefix, and the public routes never answer 401.
C3_AuthorizationTable ==
    Handled => (resp.status = 401 <=> (req.route \in AuthRoutes /\ ~BearerShaped(req.auth)))

\* the request passed the rate limit and the authorization check
Admitted == Handled /\ trail.viewRan

\* the JSON body is null, or an object without one of the route's required fields
LacksRequiredField(rq) ==
    /\ RequiredFields(rq.route) # <<>>
    /\ rq.body.exc = "none"
    /\ \/ rq.body.val.t = "NoneType"
       \/ /\ rq.body.val.t = "dict"
          /\ \E k \in Range(RequiredFields(rq.route)) : k \notin DOMAIN rq.body.val.f

\* the JSON body is an object with a well-formed value for every required field
WellFormed(rq) ==
    /\ RequiredFields(rq.route) # <<>>
    /\ rq.body = [exc |-> "none", val |-> ObjectWith(Range(RequiredFields(rq.route)))]

\* the model returned a reply, and json.loads rejects it
ReplyIsNotJson(rq) == ~rq.upstream.raises /\ JsonLoads(rq.upstream.text).exc # "none"

\* the model returned a reply that json.loads accepts
ReplyIsJson(rq) == ~rq.upstream.raises /\ JsonLoads(rq.upstream.text).exc = "none"

\* the response is a 200 success envelope
Is200Success == resp.status = 200 /\ IsSuccessEnvelope(resp.body)

\* C4: an admitted request whose body lacks a required field (a null body
\* included) gets 400 with success false, and the model is not invoked.
C4_MissingFieldIs400 ==
    (Admitted /\ LacksRequiredField(req))
        => (resp.status = 400 /\ IsErrorEnvelope(resp.body) /\ trail.calls = 0)

\* the fields the fallback of each analysis route is documented to supply
MinimumFallbackFields(route) ==
    CASE route = "identify_speakers" -> {"speakers_identified", "confidence_overall"}
      [] route = "analyze_conversation" -> {"summary"}
      [] route = "analyze_response_impact" -> {"impact_analysis"}
      [] route = "analyze_profile" -> {"profile_summary"}
      [] route = "analyze_self_profile" -> {"honest_summary"}

\* C5: on each analysis route, when a validated request gets a model reply that
\* is not valid JSON, the response is 200 success with the route's fallback fields.
C5_UnparsableReplyIsFallback200 ==
    (Admitted /\ req.route \in AnalysisRoutes /\ WellFormed(req) /\ ReplyIsNotJson(req))
        => (/\ Is200Success
            /\ resp.body.data.t = "dict"
            /\ MinimumFallbackFields(req.route) \subseteq DOMAIN resp.body.data.f)

\* the four routes whose prompt is a template filled by str.format
TemplatedRoutes == AnalysisRoutes \ {"identify_speakers"}

\* C6: on the conversation, response-impact, profile and self-profile routes an
\* admitted request with all required fields reaches the model exactly once with
\* the rendered template, and a valid JSON reply comes back as 200 with data
\* equal to the parsed reply.
C6_CompleteRequestReachesModel ==
    (Admitted /\ req.route \in TemplatedRoutes /\ WellFormed(req))
        => (/\ trail.calls = 1
            /\ trail.prompt # <<>>
            /\ ReplyIsJson(req)
                  => (Is200Success /\ resp.body.data = JsonLoads(req.upstream.text).val))

\* C7: on identify-speakers every model reply text is resolved as ok or as
\* fallback and the request ends with a 200 success envelope, never with 500.
C7_NoReplyFailsIdentifySpeakers ==
    (Admitted /\ req.route = "identify_speakers" /\ trail.calls = 1 /\ ~req.upstream.raises)
        => (trail.resolved \in {"ok", "fallback"} /\ Is200Success)

\* the data carries the raw reply text under raw_response or raw_analysis
CarriesRawText(data, text) ==
    /\ data.t = "dict"
    /\ \E k \in {"raw_response", "raw_analysis"} :
          k \in DOMAIN data.f /\ data.f[k] = PyStr(<<text>>)

\* C8: on every analysis route the fallback data of a parse failure carries the
\* raw reply text unchanged in a top-level raw_response or raw_analysis field.
C8_FallbackCarriesRawText ==
    (Admitted /\ req.route \in AnalysisRoutes /\ WellFormed(req) /\ ReplyIsNotJson(req))
        => (Is200Success /\ CarriesRawText(resp.body.data, req.upstream.text))

\* C9: the identify-speakers fallback has an empty speakers_identified list and
\* a neutral confidence_overall.
C9_FallbackReportsNoSpeakers ==
    (Admitted /\ req.route = "identify_speakers" /\ trail.resolved = "fallback" /\ Is200Success)
        => (/\ resp.body.data.f["speakers_identified"] = PyList(<<>>)
            /\ resp.body.data.f["confidence_overall"] = PyFloat("0.5"))

\* the per-minute quotas as the claim lists them
QuotaPerMinute(route) ==
    CASE route \in {"identify_speakers", "analyze_response_impact"} -> 30
      [] route = "analyze_conversation" -> 20
      [] route \in {"analyze_profile", "analyze_self_profile", "sync_upload", "sync_download"} -> 10
      [] route = "get_behaviors" -> 60
      [] route = "delete_user_data" -> 5

QuotaRoutes == AuthRoutes \cup {"get_behaviors"}

\* the place of the request among the caller's requests to the route in the window
OrdinalInWindow == trail.before["minute"] + 1

\* C10: among the requests of one caller to a route inside one minute window the
\* first Q pass the rate limit, and the request that crosses the quota Q gets
\* 429 with the error envelope 'Rate Limit Exceeded'.
C10_QuotaPerMinute ==
    (Handled /\ req.route \in QuotaRoutes)
        => /\ OrdinalInWindow <= QuotaPerMinute(req.route)
                => (trail.admitted /\ resp.status # 429)
           /\ OrdinalInWindow > QuotaPerMinute(req.route)
                => (/\ ~trail.admitted
                    /\ resp.status = 429
                    /\ IsErrorEnvelope(resp.body)
                    /\ resp.body.error = "Rate Limit Exceeded")

\* the sixth delete request of a caller inside a minute is answered 429, and so
\* is the sixty-first request for the behavior library
C10_Witness ==
    /\ Handled
    /\ req.route \in {"delete_user_data", "get_behaviors"}
    /\ OrdinalInWindow = QuotaPerMinute(req.route) + 1
    /\ resp.status = 429

\* C11: the rate-limit counters are keyed by caller address and by route: whether
\* a request is answered 429 depends only on how many requests the same caller
\* sent to the same route inside the window, never on the requests of another
\* caller or on the same caller's requests to another route.
C11_CountersKeyedByCallerAndRoute ==
    (Handled /\ req.route \in QuotaRoutes)
        => (resp.status = 429
              <=> sent[<<req.caller, req.route, "minute">>] > QuotaPerMinute(req.route))

\* another caller has used up the route, and the caller has used up another
\* route, and still the caller's request to the route passes the rate limit
C11_Witness ==
    /\ Handled
    /\ req.route \in KeyedRoutes
    /\ resp.status # 429
    /\ \E other \in Callers \ {req.caller} :
          sent[<<other, req.route, "minute">>] > QuotaPerMinute(req.route)
    /\ \E route \in KeyedRoutes \ {req.route} :
          sent[<<req.caller, route, "minute">>] > QuotaPerMinute(route)

\* the ceilings of the default limits, as the claim states them
HourlyCeiling == 100
DailyCeiling == 1000

\* C12: every route, the routes with a per-minute quota of their own included,
\* also enforces the ceiling of 100 requests per hour and 1000 per day for each
\* caller: a request past the ceiling on the route is answered 429.
C12_CeilingOnEveryRoute ==
    Handled
        => ((\/ sent[<<req.caller, req.route, "hour">>] > HourlyCeiling
             \/ sent[<<req.caller, req.route, "day">>] > DailyCeiling)
               => resp.status = 429)

\* C14: on every analysis route the model is invoked at most once per request,
\* and when that invocation fails the request ends at once with the 500 error
\* envelope 'Analysis failed': no retry, no second invocation.
C14_SingleInvocationNoRetry ==
    (Handled /\ req.route \in AnalysisRoutes)
        => /\ trail.calls <= 1
           /\ (trail.calls >= 1 /\ req.upstream.raises)
                 => (/\ resp.status = 500
                     /\ IsErrorEnvelope(resp.body)
                     /\ resp.body.error = "Analysis failed")

\* the model call of an identify-speakers request raised, and the request ended
\* with 500 after that one call
C14_Witness ==
    /\ Admitted
    /\ req.route = "identify_speakers"
    /\ req.upstream.raises
    /\ trail.calls = 1
    /\ resp.status = 500

\* the error and details each route's handler answers a failure with
FixedFailure(route) ==
    CASE route = "identify_speakers" ->
            <<"Analysis failed", "Unable to process the conversation. Please try again.">>
      [] route = "analyze_conversation" ->
            <<"Analysis failed", "Unable to analyze the conversation. Please try again.">>
      [] route = "analyze_response_impact" ->
            <<"Analysis failed", "Unable to analyze response impact. Please try again.">>
      [] route = "analyze_profile" ->
            <<"Analysis failed", "Unable to generate profile analysis. Please try again.">>
      [] route = "analyze_self_profile" ->
            <<"Analysis failed", "Unable to generate self-profile analysis. Please try again.">>
      [] route = "get_behaviors" ->
            <<"Failed to load behaviors", "Unable to retrieve the behavior library.">>
      [] route = "sync_upload" -> <<"Sync failed", "Unable to sync data. Please try again.">>
      [] route = "sync_download" ->
            <<"Sync failed", "Unable to retrieve sync data. Please try again.">>
      [] route = "delete_user_data" ->
            <<"Deletion failed", "Unable to delete data. Please contact support.">>
      [] OTHER -> <<"Internal Server Error", "An unexpected error occurred. Please try again later.">>

\* C15: the error and details of every 500 response are the fixed strings of the
\* route, whatever exception was raised inside the handler and whatever its
\* message: two failures of a route differ in the timestamp at most.
C15_NoExceptionDetailInErrors ==
    (Handled /\ resp.status = 500)
        => /\ IsErrorEnvelope(resp.body)
           /\ <<resp.body.error, resp.body.details>> = FixedFailure(req.route)
           /\ resp.body.accessibility.screen_reader_summary = "Error: " \o FixedFailure(req.route)[1]

\* the model call raised with a message that names a key, and the request ended
\* with 500
C15_Witness ==
    /\ Admitted
    /\ req.upstream = ModelRaises("403 API key not valid: AIza-key")
    /\ trail.calls = 1
    /\ resp.status = 500

\* the required fields that hold text
TextFields == {"text", "user_hash", "user_speaker", "draft_response"}

\* the body is an input error of the caller: it is no JSON object, it lacks a
\* required field, a required text field is no string, or the text to analyze is
\* empty after sanitization
InvalidInput(rq) ==
    /\ RequiredFields(rq.route) # <<>>
    /\ rq.body.exc = "none"
    /\ \/ rq.body.val.t # "dict"
       \/ /\ rq.body.val.t = "dict"
          /\ \E k \in Range(RequiredFields(rq.route)) :
                \/ k \notin DOMAIN rq.body.val.f
                \/ k \in TextFields /\ rq.body.val.f[k].t # "str"
                \/ /\ k = "text"
                   /\ rq.body.val.f[k].t = "str"
                   /\ BleachClean(rq.body.val.f[k].s) = <<>>

\* C17: the status of an error response follows from the error kind alone: 429
\* for a rate-limit violation, 401 for a missing or malformed bearer header, 400
\* for a missing field or invalid input (a required field of the wrong JSON type
\* and a body that is no object included), and 500 only for an upstream or
\* unexpected failure.
C17_StatusFollowsErrorKind ==
    Handled
        => /\ resp.status = 429 <=> ~trail.admitted
           /\ resp.status = 401 <=> (trail.authChecked /\ ~BearerShaped(req.auth))
           /\ (Admitted /\ InvalidInput(req)) => resp.status = 400
           /\ resp.status = 400 => (Admitted /\ InvalidInput(req))
           /\ resp.status = 500 => (Admitted /\ ~InvalidInput(req))

\* the fields a template takes as sanitized text
PromptTextFields == {"text", "user_speaker", "draft_response"}

\* the body has every required field, and one that goes into the prompt as text
\* is an empty string, null, or markup only
EmptyAfterSanitization(rq) ==
    /\ rq.body.exc = "none"
    /\ rq.body.val.t = "dict"
    /\ Range(RequiredFields(rq.route)) \subseteq DOMAIN rq.body.val.f
    /\ \E k \in Range(RequiredFields(rq.route)) \cap PromptTextFields :
          sanitize_input(rq.body.val.f[k]) = [exc |-> "none", val |-> <<>>]

\* C18: on every analysis route, while a field the template requires is empty
\* after sanitization no prompt is rendered and the model is not invoked: the
\* request is rejected with 400 'Invalid input'.
C18_EmptyFieldIsInvalidInput ==
    (Admitted /\ req.route \in AnalysisRoutes /\ EmptyAfterSanitization(req))
        => /\ resp.status = 400
           /\ IsErrorEnvelope(resp.body)
           /\ resp.body.error = "Invalid input"
           /\ trail.calls = 0
           /\ trail.prompt = <<>>

\* the characters of user_hash that the handlers keep
UserHashChars == 64

\* the routes that derive an identifier from user_hash
HashingRoutes == {"sync_upload", "delete_user_data"}

\* the request reached the view of such a route with every required field and
\* a string for user_hash
HashedRequest(rq, tr) ==
    /\ tr.viewRan
    /\ rq.route \in HashingRoutes
    /\ rq.body.exc = "none"
    /\ rq.body.val.t = "dict"
    /\ Range(RequiredFields(rq.route)) \subseteq DOMAIN rq.body.val.f
    /\ rq.body.val.f["user_hash"].t = "str"

\* sync_id or confirmation_code of the response
DerivedIdentifier(rq, rs) ==
    IF rq.route = "sync_upload" THEN rs.body.data.f["sync_id"]
    ELSE rs.body.data.f["confirmation_code"]

\* the first 64 characters of the request's user_hash
KeptUserHash(rq) == Prefix(rq.body.val.f["user_hash"].s, UserHashChars)

\* C19: sync_id and confirmation_code depend on user_hash through its first 64
\* characters only: two requests in a row to the route at the same timestamp
\* whose user_hash values agree on those characters get the same identifier, and
\* a user_hash of any length is answered 200.
C19_IdentifierFromFirst64Chars ==
    [][HashedRequest(req', trail')
         => /\ resp'.status = 200
            /\ (/\ HashedRequest(req, trail)
                /\ req.route = req'.route
                /\ req.now = req'.now
                /\ KeptUserHash(req) = KeptUserHash(req'))
                  => DerivedIdentifier(req', resp') = DerivedIdentifier(req, resp)]_vars

\* a user_hash of 65 characters was answered 200
C19_Witness ==
    /\ HashedRequest(req, trail)
    /\ Len(req.body.val.f["user_hash"].s) > UserHashChars
    /\ resp.status = 200
    /\ DerivedIdentifier(req, resp).t = "str"

\* the data of a download that found nothing
NoSyncData ==
    PyDict([encrypted_data |-> PyNone, last_sync |-> PyNone, status |-> PyStr(<<"no_data">>)])

\* the request reached the view with a JSON object that names a user_hash
NamesUserHash(rq, tr) ==
    /\ tr.viewRan
    /\ rq.body.exc = "none"
    /\ rq.body.val.t = "dict"
    /\ "user_hash" \in DOMAIN rq.body.val.f

\* the uploads the caller of the request has sent in the window, all of them
\* acknowledged
AcknowledgedUploads == sent[<<req.caller, "sync_upload", "minute">>]

\* C20: nothing but the rate-limit counters is kept from one request to the
\* next: after any uploads and deletions a download for any user_hash reports
\* no_data with encrypted_data and last_sync null, and a deletion reports
\* deleted: true whether or not the user_hash was ever uploaded.
C20_NothingRetained ==
    /\ (NamesUserHash(req, trail) /\ req.route = "sync_download")
          => (Is200Success /\ resp.body.data = NoSyncData)
    /\ (HashedRequest(req, trail) /\ req.route = "delete_user_data")
          => (/\ Is200Success
              /\ resp.body.data.f["deleted"] = PyBool(TRUE)
              /\ DOMAIN resp.body.data.f = {"deleted", "timestamp", "confirmation_code"})

\* the caller has uploaded for a user_hash, each upload was acknowledged, and its
\* download for that user_hash reports no_data
C20_Witness ==
    /\ NamesUserHash(req, trail)
    /\ req.route = "sync_download"
    /\ req.body.val.f["user_hash"] = SampleValue("user_hash")
    /\ AcknowledgedUploads \in 1..QuotaPerMinute("sync_upload")
    /\ resp.status = 200
    /\ resp.body.data = NoSyncData

----------------------------------------------------------------------------
(* C21 *)

\* the categories view ran for the request
CategoriesServed(rq, tr) == rq.route = "get_behavior_categories" /\ tr.viewRan

\* C21: a call of GET /api/v1/behaviors/categories changes no counter but those
\* of its own caller and route, and two calls that follow one another while the
\* library file stays as it is return identical category lists
C21_CategoriesIdempotent ==
    [][CategoriesServed(req', trail') =>
          /\ \A k \in Keys : hits'[k] # hits[k] => (k[1] = req'.caller /\ k[2] = req'.route)
          /\ (CategoriesServed(req, trail) /\ req'.library = req.library)
                => resp'.body.data = resp.body.data]_vars

\* a second call in a row has been answered
C21_Witness ==
    /\ CategoriesServed(req, trail)
    /\ resp.status = 200
    /\ trail.before["hour"] >= 1

----------------------------------------------------------------------------
(* C22 *)

\* the path of the request is the URL rule of some view
Registered(path) == \E route \in Routes : UrlRule(route) = path

\* no view of that path is registered for the method
WrongMethod(path, method) ==
    Registered(path) /\ \A route \in Routes : UrlRule(route) = path => method \notin Methods(route)

\* C22: a request to a path that is not registered is answered 404 with the
\* error envelope, and a request to a registered path with a method it does not
\* accept is answered 405 while neither validate_api_key, the view nor the model ran
C22_RoutingErrors ==
    Handled =>
       /\ ~Registered(req.path) =>
             /\ resp.status = 404
             /\ IsErrorEnvelope(resp.body)
             /\ resp.body.success = FALSE
             /\ "accessibility" \in DOMAIN resp.body
       /\ WrongMethod(req.path, req.method) =>
             /\ resp.status = 405
             /\ ~trail.authChecked /\ ~trail.viewRan /\ trail.calls = 0

\* both routing errors have been answered: here the wrong method on a route
\* that asks for the Authorization header, sent without one
C22_Witness ==
    /\ Handled
    /\ WrongMethod(req.path, req.method)
    /\ req.path = UrlRule("identify_speakers")
    /\ ~req.auth.present
    /\ resp.status = 405

\* the unregistered path has been answered
C22_WitnessNotFound == Handled /\ ~Registered(req.path) /\ resp.status = 404

----------------------------------------------------------------------------
(* C23 *)

\* sanitize_input has been applied to a text or to None and has returned
Sanitized ==
    /\ call.fn = "sanitize_input"
    /\ call.args[1].t \in {"str", "NoneType"}
    /\ call.ret.exc = "none"

\* the text holds no markup tag and no < or > that could open or close one
NoMarkup(s) == \A i \in 1..Len(s) : s[i] \notin MarkupTags \cup {"<", ">"}

\* C23: for every text, sanitize_input returns at most 50,000 characters with
\* no markup in them; None and "" give ""; a longer text is cut, not rejected;
\* and the cut is made after the markup is removed: a text with 50,000 or more
\* characters left after cleaning comes out exactly 50,000 long
C23_SanitizedIsCappedAndBare ==
    (call.fn = "sanitize_input" /\ call.args[1].t \in {"str", "NoneType"}) =>
       /\ call.ret.exc = "none"
       /\ TextLen(call.ret.val) <= SanitizeCap
       /\ NoMarkup(call.ret.val)
       /\ ~Truthy(call.args[1]) => call.ret.val = <<>>
       /\ (call.args[1].t = "str" /\ TextLen(BleachClean(call.args[1].s)) >= SanitizeCap)
             => TextLen(call.ret.val) = SanitizeCap

\* a text of more than 50,000 characters once its markup is gone has been cut
C23_Witness ==
    /\ Sanitized
    /\ call.args[1].t = "str"
    /\ \E i \in 1..Len(call.args[1].s) : call.args[1].s[i] \in MarkupTags
    /\ TextLen(BleachClean(call.args[1].s)) > SanitizeCap
    /\ TextLen(call.ret.val) = SanitizeCap

----------------------------------------------------------------------------
(* C24 *)

\* the text holds no markup tag
NoTags(s) == \A i \in 1..Len(s) : s[i] \notin MarkupTags

\* C24: a text of at most 50,000 characters that holds no markup tag comes out
\* of sanitize_input exactly as it went in
C24_PlainTextUnchanged ==
    (call.fn = "sanitize_input" /\ call.args[1].t = "str"
        /\ NoTags(call.args[1].s) /\ TextLen(call.args[1].s) <= SanitizeCap)
       => (call.ret.exc = "none" /\ call.ret.val = call.args[1].s)

----------------------------------------------------------------------------
(* C25 *)

\* C25: create_accessible_response returns success true, the message given (or
\* 'Success' when none is given), the data given, the timestamp of the call in
\* ISO format, screen_reader_summary equal to the message and data_type equal
\* to the name of the type of the data
C25_SuccessEnvelopeFields ==
    call.fn = "create_accessible_response" =>
       LET data == call.args[1]
           message == IF Len(call.args) >= 2 THEN call.args[2] ELSE "Success"
       IN /\ DOMAIN call.ret = {"success", "message", "timestamp", "data", "accessibility"}
          /\ call.ret.success = TRUE
          /\ call.ret.message = message
          /\ call.ret.data = data
          /\ call.ret.timestamp = call.now /\ call.now \in Times
          /\ call.ret.accessibility.screen_reader_summary = message
          /\ call.ret.accessibility.data_type = data.t

\* the builder has been given a list and no message
C25_Witness ==
    /\ call.fn = "create_accessible_response"
    /\ Len(call.args) = 1
    /\ call.args[1].t = "list"
    /\ call.ret.message = "Success"
    /\ call.ret.accessibility.data_type = "list"

----------------------------------------------------------------------------
(* C26 *)

\* the suggested_action of every error response
SuggestedAction == "Please try again or contact support"

\* C26: create_error_response returns a body with success false, the error and
\* the details given, the timestamp of the call, screen_reader_summary equal to
\* 'Error: ' and the error, and the one fixed suggested_action, together with
\* the status code given, or 400 when none is given
C26_ErrorEnvelopeFields ==
    call.fn = "create_error_response" =>
       LET error == call.args[1]
           details == IF Len(call.args) >= 2 THEN call.args[2] ELSE ""
           status_code == IF Len(call.args) >= 3 THEN call.args[3] ELSE 400
       IN /\ DOMAIN call.ret = {"status", "body"}
          /\ DOMAIN call.ret.body = {"success", "error", "details", "timestamp", "accessibility"}
          /\ call.ret.body.success = FALSE
          /\ call.ret.body.error = error
          /\ call.ret.body.details = details
          /\ call.ret.body.timestamp = call.now /\ call.now \in Times
          /\ call.ret.body.accessibility.screen_reader_summary = "Error: " \o error
          /\ call.ret.body.accessibility.suggested_action = SuggestedAction
          /\ call.ret.status = status_code

\* the builder has been given a status code other than the default, and has
\* been given none
C26_Witness ==
    /\ call.fn = "create_error_response"
    /\ Len(call.args) = 3
    /\ call.args[3] = 404
    /\ call.ret.status = 404

C26_WitnessDefault ==
    /\ call.fn = "create_error_response"
    /\ Len(call.args) = 1
    /\ call.ret.status = 400

----------------------------------------------------------------------------
(* C27 *)

\* the request handled last was answered 429
RateLimited(rq, rs) == rq.route \in Routes /\ rs.status = 429

LimitsPer(route, per) ==
    {RouteLimits(route)[i].amount :
        i \in {j \in 1..Len(RouteLimits(route)) : RouteLimits(route)[j].per = per}}

----------------------------------------------------------------------------
(* C28 *)

\* the model was called for the request
ModelCalled(rq, tr) == rq.route \in AnalysisRoutes /\ tr.calls > 0

\* C28: the generation_config of a call of the model asks for JSON, sets a
\* temperature of 0.3 to 0.5 and an output cap of 4,096 to 8,192 tokens, and is
\* the same for two requests in a row to the same route
C28_ConfigFixedPerRoute ==
    [][ModelCalled(req', trail') =>
          /\ "response_mime_type" \in DOMAIN trail'.config
          /\ trail'.config.response_mime_type = "application/json"
          /\ "temperature" \in DOMAIN trail'.config
          /\ trail'.config.temperature \in 3..5
          /\ "max_output_tokens" \in DOMAIN trail'.config
          /\ trail'.config.max_output_tokens \in 4096..8192
          /\ (ModelCalled(req, trail) /\ req.route = req'.route)
                => trail'.config = trail.config]_vars

----------------------------------------------------------------------------
(* C29 *)

\* the category names of the taxonomy GET /api/v1/behaviors returns to a
\* request that finds the library file as rq does
TaxonomyCategoryNames(rq) == CategoryNames(get_behaviors(rq).body.data)

\* C29: the list GET /api/v1/behaviors/categories returns, and the list put
\* into the conversation-analysis prompt, is the list of the category names of
\* the taxonomy GET /api/v1/behaviors returns while the library file is the same
C29_CategoriesOfTheTaxonomy ==
    /\ (CategoriesServed(req, trail) /\ get_behaviors(req).status = 200) =>
          /\ resp.status = 200
          /\ resp.body.data.f["categories"] = TaxonomyCategoryNames(req)
    /\ (req.route = "analyze_conversation" /\ trail.calls > 0) =>
          IsInfix(JsonDumps(TaxonomyCategoryNames(req)), trail.prompt)

----------------------------------------------------------------------------
(* C30 *)

\* the length of data.speakers_identified, 0 when the field is absent
SpeakerCount(data) ==
    IF "speakers_identified" \notin DOMAIN data.f THEN 0
    ELSE LET speakers == data.f["speakers_identified"]
         IN CASE speakers.t = "list" -> Len(speakers.items)
              [] speakers.t = "str" -> Len(speakers.s)
              [] speakers.t = "dict" -> Cardinality(DOMAIN speakers.f)

\* identify_speakers answered the request 200
SpeakersIdentified == Handled /\ req.route = "identify_speakers" /\ resp.status = 200

\* C30: in every 200 response of identify_speakers the N of 'Identified N
\* speakers in the conversation' is the length of data.speakers_identified, 0
\* when the field is absent, and screen_reader_summary is that same message
C30_MessageCountsSpeakers ==
    SpeakersIdentified =>
       /\ resp.body.message =
             "Identified " \o ToString(SpeakerCount(resp.body.data)) \o " speakers in the conversation"
       /\ resp.body.accessibility.screen_reader_summary = resp.body.message

\* a reply that was parsed and names no speakers has been answered with N = 0
C30_Witness ==
    /\ SpeakersIdentified
    /\ trail.resolved = "ok"
    /\ "speakers_identified" \notin DOMAIN resp.body.data.f
    /\ resp.body.message = "Identified 0 speakers in the conversation"

\* a reply that was not JSON has been answered with the two speakers of the fallback
C30_WitnessFallback ==
    /\ SpeakersIdentified
    /\ trail.resolved = "fallback"
    /\ resp.body.message = "Identified 2 speakers in the conversation"

====
